---- MODULE Spec2Model ----
(***************************************************************************)
(* Model of the HTTP proxy server: the request handler (httpserver.py),    *)
(* the shared settings and proxy thread (shared_settings.py), the admin    *)
(* blueprint (main_blueprint.py) and the boot sequence (app.py).           *)
(***************************************************************************)
EXTENDS Integers, Sequences, FiniteSets, TLC

VARIABLES
    url_whitelist, url_blacklist, ip_whitelist, ip_blacklist,
    proxy_server_running, allow_caching, caching_timer,
    cache, sse_queue,
    shutdown_request, is_shut_down,
    h, adm, pth, now, faults,
    lastStore, firstStore, delivered, nreq, nops, nline

ssvars == <<url_whitelist, url_blacklist, ip_whitelist, ip_blacklist>>
cfgvars == <<allow_caching, caching_timer, faults>>
srvvars == <<proxy_server_running, shutdown_request, is_shut_down, pth>>
ghostvars == <<lastStore, firstStore>>
vars == <<url_whitelist, url_blacklist, ip_whitelist, ip_blacklist,
          proxy_server_running, allow_caching, caching_timer,
          cache, sse_queue, shutdown_request, is_shut_down,
          h, adm, pth, now, faults, lastStore, firstStore, delivered,
          nreq, nops, nline>>

(***************************************************************************)
(* Bounds of the model.                                                    *)
(***************************************************************************)
MaxRequests == 2
MaxEvents == 4
MaxLines == 3
MaxDrains == 2
MaxUpdates == 1
MaxToggles == 2

(***************************************************************************)
(* Strings are sequences of one-character strings.                         *)
(***************************************************************************)
None == <<"<None>">>

RECURSIVE Remove(_, _)
\* str.replace(c, '')
Remove(s, c) ==
    IF s = <<>> THEN <<>>
    ELSE IF Head(s) = c THEN Remove(Tail(s), c)
    ELSE <<Head(s)>> \o Remove(Tail(s), c)

RECURSIVE SplitAcc(_, _, _)
SplitAcc(s, sep, cur) ==
    IF s = <<>> THEN <<cur>>
    ELSE IF Head(s) = sep THEN <<cur>> \o SplitAcc(Tail(s), sep, <<>>)
    ELSE SplitAcc(Tail(s), sep, Append(cur, Head(s)))

\* str.split(sep): ''.split(',') is [''], 'a,'.split(',') is ['a', '']
Split(s, sep) == SplitAcc(s, sep, <<>>)

\* request.form[...].replace(' ', '').split(',')
ParseList(text) == Split(Remove(text, " "), ",")

RECURSIVE NonEmpty(_)
\* [x for x in lst if x != '']
NonEmpty(lst) ==
    IF lst = <<>> THEN <<>>
    ELSE IF Head(lst) = <<>> THEN NonEmpty(Tail(lst))
    ELSE <<Head(lst)>> \o NonEmpty(Tail(lst))

\* x in lst
In(x, lst) == \E i \in DOMAIN lst : lst[i] = x

\* truth value of a list
Truthy(lst) == Len(lst) > 0

Lower(c) == IF c = "A" THEN "a" ELSE IF c = "B" THEN "b" ELSE c

\* urlparse(path).hostname: the lower-cased host, None when there is none
Hostname(path) ==
    IF path.netloc = <<>> THEN None
    ELSE [i \in DOMAIN path.netloc |-> Lower(path.netloc[i])]

(***************************************************************************)
(* Inputs.                                                                 *)
(***************************************************************************)
Workers == {"w1", "w2"}
Admins == {"a1", "a2"}
ProxyThreads == {"t0", "t1", "t2"}

METHODS == {"GET", "HEAD", "POST", "PUT", "DELETE", "OPTIONS", "TRACE", "CONNECT"}

IPs == {<<"a">>, <<"b">>}
URLa == [netloc |-> <<"a">>, rest |-> "/a"]
URLA == [netloc |-> <<"A">>, rest |-> "/a"]
URLb == [netloc |-> <<"b">>, rest |-> "/"]
URLrel == [netloc |-> <<>>, rest |-> "/x"]
URLs == {URLa, URLA, URLb, URLrel}

ListValues == {<<>>, <<<<"a">>>>, <<<<"b">>>>, <<<<"a">>, <<"b">>>>}

FormTexts == {<<>>, <<"a">>, <<"b">>, <<"a", ",", " ", "b">>, <<" ", "a", ",">>}

(***************************************************************************)
(* ProxyHTTPHandler.filter_request_ip / filter_request_url                 *)
(***************************************************************************)
filter_request_ip_blacklist_wins(client_ip) ==
    IF Truthy(ip_whitelist) /\ ~In(client_ip, ip_whitelist) THEN FALSE
    ELSE IF In(client_ip, ip_blacklist) THEN FALSE
    ELSE TRUE

filter_request_ip(client_ip) ==
    IF Truthy(ip_whitelist) /\ ~In(client_ip, ip_whitelist) THEN FALSE
    ELSE IF In(client_ip, ip_blacklist) /\ ~In(client_ip, ip_whitelist) THEN FALSE
    ELSE TRUE

filter_request_url(path) ==
    LET url_hostname == Hostname(path) IN
    IF Truthy(url_whitelist) /\ ~In(url_hostname, url_whitelist) THEN FALSE
    ELSE IF In(url_hostname, url_blacklist) /\ ~In(url_hostname, url_whitelist) THEN FALSE
    ELSE TRUE

\* The condition of the wrapper's filter test (httpserver.py line 137)
FilterPasses(client_ip, path) ==
    filter_request_ip(client_ip) /\ filter_request_url(path)

(***************************************************************************)
(* Exceptions: a class of the hierarchy below, and for an HTTPError the    *)
(* origin's status and reason.                                             *)
(***************************************************************************)
ExcClasses == {"ValueError", "HTTPError", "ConnectionResetError", "TimeoutError",
               "URLError", "BrokenPipeError", "OSError", "TypeError", "HTTPException"}

\* the base class of each class (Exception is the root)
Base(c) ==
    CASE c = "HTTPError" -> "URLError"
      [] c = "URLError" -> "OSError"
      [] c = "ConnectionResetError" -> "OSError"
      [] c = "BrokenPipeError" -> "OSError"
      [] c = "TimeoutError" -> "OSError"
      [] OTHER -> "Exception"

RECURSIVE IsSubclass(_, _)
IsSubclass(c, d) ==
    IF c = d THEN TRUE
    ELSE IF c = "Exception" THEN FALSE
    ELSE IsSubclass(Base(c), d)

\* isinstance(e, cls)
IsInstance(e, cls) == IsSubclass(e.cls, cls)

NoExc == [cls |-> "none", code |-> 0, reason |-> "none"]
Exc(c) == [cls |-> c, code |-> 0, reason |-> "none"]
HTTPErrors == {[cls |-> "HTTPError", code |-> 404, reason |-> "Not Found"],
               [cls |-> "HTTPError", code |-> 503, reason |-> "Service Unavailable"]}
URLErrors == {[cls |-> "URLError", code |-> 0, reason |-> "unreachable"]}
\* urlopen wraps a failure of the connection attempt, a timeout included, in URLError
ConnectTimeout == [cls |-> "URLError", code |-> 0, reason |-> "timed out"]

\* The failures the network produces in a behaviour: every kind ("all"), only an
\* origin that cannot be reached ("few"), that and a timeout while the origin's
\* body is read ("read"), none ("none"), or none but the origin of host b
\* accepting the connection and never answering ("hang").
\* what urlopen can raise for a URL it can open a connection for
UrlopenErrors ==
    IF faults = "all"
    THEN HTTPErrors \cup URLErrors \cup
         {ConnectTimeout, Exc("TimeoutError"), Exc("ConnectionResetError"), Exc("HTTPException")}
    ELSE IF faults \in {"few", "read"} THEN URLErrors
    ELSE {}
\* what reading the origin's body can raise
ReadErrors ==
    IF faults = "all"
    THEN {Exc("TimeoutError"), Exc("ConnectionResetError"), Exc("OSError"),
          Exc("HTTPException")}
    ELSE IF faults = "read" THEN {Exc("TimeoutError")}
    ELSE {}
\* what writing to the client connection can raise
WriteErrors ==
    IF faults = "all" THEN {Exc("BrokenPipeError"), Exc("ConnectionResetError")}
    ELSE {}

(***************************************************************************)
(* Origin responses and cache entries.                                     *)
(***************************************************************************)
NoEntry == [headers |-> "none", content |-> "none"]
NoRes == [status |-> 0, headers |-> "none", content |-> "none"]
OriginResponses == {[status |-> 200, headers |-> "hA", content |-> "cA"],
                    [status |-> 203, headers |-> "hB", content |-> "cB"]}
NoCache == [value |-> NoEntry, expire |-> 0]

\* diskcache.Cache.get: the stored value unless absent or expired
CacheGet(key) ==
    IF cache[key] # NoCache /\ cache[key].expire > now THEN cache[key].value
    ELSE NoEntry

\* diskcache.Cache.set(key, value, expire=seconds)
CacheSet(key, value, seconds) ==
    [cache EXCEPT ![key] = [value |-> value, expire |-> now + seconds]]

\* diskcache.Cache.clear
CacheClear == [k \in DOMAIN cache |-> NoCache]

(***************************************************************************)
(* The state of one handler thread (one ProxyHTTPHandler instance).  The   *)
(* fields after `cached` record what the handler did for the request.      *)
(***************************************************************************)
IdleH == [pc |-> "idle", method |-> "none", path |-> URLrel, client_ip |-> <<>>,
          clen |-> "none", exc |-> NoExc, res |-> NoRes, cached |-> NoEntry,
          responses |-> <<>>, bodies |-> <<>>, origin |-> <<>>, caught |-> <<>>,
          gets |-> 0, sets |-> 0, line0 |-> 0, nresp0 |-> 0,
          rejected |-> FALSE, escaped |-> NoExc, cachingOn |-> FALSE,
          hx |-> [logs |-> <<>>, code |-> 0, reason |-> "none"],
          first0 |-> NoCache, expect |-> NoEntry, expectFirst |-> NoEntry]

\* the lines one call appends to the log queue
Lines(kinds, w) ==
    [i \in 1..Len(kinds) |-> [kind |-> kinds[i], by |-> w, id |-> nline + i]]

\* sse_queue.put of each line in turn
Put(kinds, w) ==
    /\ sse_queue' = sse_queue \o Lines(kinds, w)
    /\ nline' = nline + Len(kinds)

Raise(r, e) == [r EXCEPT !.pc = "handle_exception", !.exc = e,
                         !.caught = Append(@, e), !.nresp0 = Len(r.responses)]

\* send_response(status, reason) and the headers that follow it
Emit(r, status, reason, headers) ==
    [r EXCEPT !.responses = Append(@, [status |-> status, reason |-> reason,
                                       headers |-> headers])]

Live(e) == e # NoCache /\ e.expire > now

Serving == \E t \in ProxyThreads : pth[t] = "serving"

\* ThreadingHTTPServer hands an accepted connection's request to a new handler
Accept(w, m, u, ip, cl) ==
    /\ Serving
    /\ h[w].pc = "idle"
    /\ nreq' = nreq + 1
    /\ h' = [h EXCEPT ![w] = [IdleH EXCEPT !.pc = "filter", !.method = m, !.path = u,
                                !.client_ip = ip, !.clen = cl, !.line0 = nline,
                                !.cachingOn = allow_caching,
                                !.first0 = IF Live(firstStore[u]) THEN firstStore[u]
                                           ELSE NoCache]]
    /\ UNCHANGED <<ssvars, cfgvars, srvvars, ghostvars, cache, sse_queue, adm, now,
                   delivered, nops, nline>>

Entry(m) ==
    CASE m = "GET" -> "get_cache"
      [] m = "POST" -> "post_read"
      [] m = "DELETE" -> "delete_urlopen"
      [] m = "OPTIONS" -> "options"
      [] m = "PUT" -> "put_read"
      [] m = "HEAD" -> "head_urlopen"
      [] OTHER -> "not_allowed"

\* the positions at which a handler calls urlopen
UrlopenPcs == {"get_urlopen", "post_urlopen", "delete_urlopen", "put_urlopen",
               "head_urlopen"}

\* the wrapper under a lock that a handler holds while it calls urlopen
WrapperFilter_under_lock(w) ==
    /\ h[w].pc = "filter"
    /\ \A v \in Workers \ {w} : h[v].pc \notin UrlopenPcs
    /\ h' = [h EXCEPT ![w].pc = IF FilterPasses(h[w].client_ip, h[w].path)
                                THEN Entry(h[w].method) ELSE "send403",
                      ![w].rejected = ~FilterPasses(h[w].client_ip, h[w].path)]
    /\ UNCHANGED <<ssvars, cfgvars, srvvars, ghostvars, cache, sse_queue, adm, now,
                   delivered, nreq, nops, nline>>

\* the wrapper without the return of line 139: a rejected request is answered
\* 403 and then handled all the same
WrapperFilter_no_return(w) ==
    /\ h[w].pc = "filter"
    /\ IF FilterPasses(h[w].client_ip, h[w].path)
       THEN /\ h' = [h EXCEPT ![w].pc = Entry(h[w].method)]
            /\ UNCHANGED <<sse_queue, nline>>
       ELSE /\ h' = [h EXCEPT ![w] = [Emit(h[w], 403, "Access Denied", "error")
                                        EXCEPT !.pc = Entry(h[w].method),
                                               !.rejected = TRUE]]
            /\ Put(<<"error", "access">>, w)
    /\ UNCHANGED <<ssvars, cfgvars, srvvars, ghostvars, cache, adm, now,
                   delivered, nreq, nops>>

\* wrapper, lines 137-141: the filter test and the choice it makes
WrapperFilter(w) ==
    /\ h[w].pc = "filter"
    /\ h' = [h EXCEPT ![w].pc = IF FilterPasses(h[w].client_ip, h[w].path)
                                THEN Entry(h[w].method) ELSE "send403",
                      ![w].rejected = ~FilterPasses(h[w].client_ip, h[w].path)]
    /\ UNCHANGED <<ssvars, cfgvars, srvvars, ghostvars, cache, sse_queue, adm, now,
                   delivered, nreq, nops, nline>>

\* send_error(code, reason) at pc `from`: log_error, send_response (which logs the
\* access line), the headers and the error body; the write may fail
SendError(w, from, code, reason, to) ==
    /\ h[w].pc = from
    /\ Put(<<"error", "access">>, w)
    /\ \/ h' = [h EXCEPT ![w] = [Emit(h[w], code, reason, "error")
                                   EXCEPT !.pc = to, !.bodies = Append(@, "error")]]
       \/ \E e \in WriteErrors :
             h' = [h EXCEPT ![w] = Raise(Emit(h[w], code, reason, "error"), e)]
    /\ UNCHANGED <<ssvars, cfgvars, srvvars, ghostvars, cache, adm, now,
                   delivered, nreq, nops>>

\* wrapper, lines 138-139
Send403(w) == SendError(w, "send403", 403, "Access Denied", "done")

\* do_TRACE, do_CONNECT
NotAllowed(w) == SendError(w, "not_allowed", 405, "Method Not Allowed", "done")

\* the origin of u answers the request sent to it
Answers(u) == ~(faults = "hang" /\ Hostname(u) = <<"b">>)

\* urlopen at pc `from` with the outbound method `om`; the call is made without a
\* timeout and returns when the origin has answered or the connection has failed
Urlopen(w, from, om, to) ==
    /\ h[w].pc = from
    /\ Hostname(h[w].path) = None \/ Answers(h[w].path)
    /\ IF Hostname(h[w].path) = None
       THEN h' = [h EXCEPT ![w] = Raise(h[w], Exc("ValueError"))]
       ELSE LET r == [h[w] EXCEPT !.origin = Append(@, [method |-> om, url |-> h[w].path])]
            IN \/ \E res \in OriginResponses :
                     h' = [h EXCEPT ![w] = [r EXCEPT !.pc = to, !.res = res]]
               \/ \E e \in UrlopenErrors : h' = [h EXCEPT ![w] = Raise(r, e)]
    /\ UNCHANGED <<ssvars, cfgvars, srvvars, ghostvars, cache, sse_queue, adm, now,
                   delivered, nreq, nops, nline>>

\* res.read()
ResRead(w, from, to) ==
    /\ h[w].pc = from
    /\ \/ h' = [h EXCEPT ![w].pc = to]
       \/ \E e \in ReadErrors : h' = [h EXCEPT ![w] = Raise(h[w], e)]
    /\ UNCHANGED <<ssvars, cfgvars, srvvars, ghostvars, cache, sse_queue, adm, now,
                   delivered, nreq, nops, nline>>

\* send_response(res.status), the origin's headers, end_headers
SendHeaders(w, from, to) ==
    /\ h[w].pc = from
    /\ Put(<<"access">>, w)
    /\ LET r == Emit(h[w], h[w].res.status, "std", h[w].res.headers)
       IN \/ h' = [h EXCEPT ![w] = [r EXCEPT !.pc = to]]
          \/ \E e \in WriteErrors : h' = [h EXCEPT ![w] = Raise(r, e)]
    /\ UNCHANGED <<ssvars, cfgvars, srvvars, ghostvars, cache, adm, now,
                   delivered, nreq, nops>>

\* wfile.write(res_content)
WriteBody(w, from, to) ==
    /\ h[w].pc = from
    /\ \/ h' = [h EXCEPT ![w].pc = to, ![w].bodies = Append(@, h[w].res.content)]
       \/ \E e \in WriteErrors : h' = [h EXCEPT ![w] = Raise(h[w], e)]
    /\ UNCHANGED <<ssvars, cfgvars, srvvars, ghostvars, cache, sse_queue, adm, now,
                   delivered, nreq, nops, nline>>

\* send_response(res.status), headers, end_headers, wfile.write(res_content)
SendAll(w, from, to) ==
    /\ h[w].pc = from
    /\ Put(<<"access">>, w)
    /\ LET r == Emit(h[w], h[w].res.status, "std", h[w].res.headers)
       IN \/ h' = [h EXCEPT ![w] = [r EXCEPT !.pc = to,
                                              !.bodies = Append(@, h[w].res.content)]]
          \/ \E e \in WriteErrors : h' = [h EXCEPT ![w] = Raise(r, e)]
    /\ UNCHANGED <<ssvars, cfgvars, srvvars, ghostvars, cache, adm, now,
                   delivered, nreq, nops>>

(***************************************************************************)
(* do_GET                                                                  *)
(***************************************************************************)
\* line 165: cached_response = ss.cache.get(self.path)
GetCache(w) ==
    /\ h[w].pc = "get_cache"
    /\ h' = [h EXCEPT ![w].pc = "get_branch",
                      ![w].cached = CacheGet(h[w].path),
                      ![w].gets = @ + 1,
                      ![w].expect = IF Live(lastStore[h[w].path])
                                    THEN lastStore[h[w].path].value ELSE NoEntry,
                      ![w].expectFirst =
                          IF h[w].first0 # NoCache /\ firstStore[h[w].path] = h[w].first0
                             /\ Live(firstStore[h[w].path])
                          THEN h[w].first0.value ELSE NoEntry]
    /\ UNCHANGED <<ssvars, cfgvars, srvvars, ghostvars, cache, sse_queue, adm, now,
                   delivered, nreq, nops, nline>>

\* line 167 with the `not` dropped
GetBranch_without_not(w) ==
    /\ h[w].pc = "get_branch"
    /\ h' = [h EXCEPT ![w].pc = IF h[w].cached = NoEntry \/ allow_caching
                                THEN "get_urlopen" ELSE "get_cached"]
    /\ UNCHANGED <<ssvars, cfgvars, srvvars, ghostvars, cache, sse_queue, adm, now,
                   delivered, nreq, nops, nline>>

\* line 167: if cached_response is None or not ss.allow_caching
GetBranch(w) ==
    /\ h[w].pc = "get_branch"
    /\ h' = [h EXCEPT ![w].pc = IF h[w].cached = NoEntry \/ ~allow_caching
                                THEN "get_urlopen" ELSE "get_cached"]
    /\ UNCHANGED <<ssvars, cfgvars, srvvars, ghostvars, cache, sse_queue, adm, now,
                   delivered, nreq, nops, nline>>

\* line 169
GetUrlopen(w) == Urlopen(w, "get_urlopen", "GET", "get_read")

\* line 170
GetRead(w) == ResRead(w, "get_read", "get_store")

\* lines 172-174: cache_data, and the set when caching is allowed
GetStore(w) ==
    /\ h[w].pc = "get_store"
    /\ LET cache_data == [headers |-> h[w].res.headers, content |-> h[w].res.content]
           entry == [value |-> cache_data, expire |-> now + caching_timer]
       IN IF allow_caching
          THEN /\ cache' = CacheSet(h[w].path, cache_data, caching_timer)
               /\ h' = [h EXCEPT ![w].pc = "get_send", ![w].sets = @ + 1]
               /\ lastStore' = [lastStore EXCEPT ![h[w].path] = entry]
               /\ firstStore' = [firstStore EXCEPT ![h[w].path] =
                                    IF Live(@) THEN @ ELSE entry]
          ELSE /\ h' = [h EXCEPT ![w].pc = "get_send"]
               /\ UNCHANGED <<cache, ghostvars>>
    /\ UNCHANGED <<ssvars, cfgvars, srvvars, sse_queue, adm, now,
                   delivered, nreq, nops, nline>>

\* lines 177-181
GetSend(w) == SendAll(w, "get_send", "done")

\* lines 185-193: the cache-hit log line and the cached response
GetCached(w) ==
    /\ h[w].pc = "get_cached"
    /\ Put(<<"cache_hit", "access">>, w)
    /\ LET r == Emit(h[w], 200, "OK (from cache)", h[w].cached.headers)
       IN \/ h' = [h EXCEPT ![w] = [r EXCEPT !.pc = "done",
                                              !.bodies = Append(@, h[w].cached.content)]]
          \/ \E e \in WriteErrors : h' = [h EXCEPT ![w] = Raise(r, e)]
    /\ UNCHANGED <<ssvars, cfgvars, srvvars, ghostvars, cache, adm, now,
                   delivered, nreq, nops>>

(***************************************************************************)
(* do_POST, do_DELETE, do_OPTIONS, do_PUT, do_HEAD                         *)
(***************************************************************************)
\* lines 207-208: int(self.headers['Content-Length']) and the body
PostRead(w) ==
    /\ h[w].pc = "post_read"
    /\ h' = [h EXCEPT ![w] =
                CASE h[w].clen = "bad" -> Raise(h[w], Exc("ValueError"))
                  [] h[w].clen = "missing" -> Raise(h[w], Exc("TypeError"))
                  [] OTHER -> [h[w] EXCEPT !.pc = "post_urlopen"]]
    /\ UNCHANGED <<ssvars, cfgvars, srvvars, ghostvars, cache, sse_queue, adm, now,
                   delivered, nreq, nops, nline>>

\* lines 215-216
PostUrlopen(w) == Urlopen(w, "post_urlopen", "POST", "post_resread")
\* line 217
PostResRead(w) == ResRead(w, "post_resread", "post_send")
\* do_POST storing the response it relays in the cache
PostSend_caching(w) ==
    /\ h[w].pc = "post_send"
    /\ Put(<<"access">>, w)
    /\ cache' = CacheSet(h[w].path, [headers |-> h[w].res.headers,
                                     content |-> h[w].res.content], caching_timer)
    /\ h' = [h EXCEPT ![w] = [Emit(h[w], h[w].res.status, "std", h[w].res.headers)
                                EXCEPT !.pc = "done",
                                       !.bodies = Append(@, h[w].res.content)]]
    /\ UNCHANGED <<ssvars, cfgvars, srvvars, ghostvars, adm, now, delivered, nreq, nops>>

\* lines 220-225
PostSend(w) == SendAll(w, "post_send", "done")

\* lines 245-246
DeleteUrlopen(w) == Urlopen(w, "delete_urlopen", "DELETE", "delete_headers")
\* lines 249-252
DeleteHeaders(w) == SendHeaders(w, "delete_headers", "delete_resread")
\* line 255
DeleteResRead(w) == ResRead(w, "delete_resread", "delete_write")
\* line 256
DeleteWrite(w) == WriteBody(w, "delete_write", "done")

\* lines 268-269: the headers do_OPTIONS sends
AllowHeaders == "Allow: OPTIONS, GET, HEAD, POST, PUT, DELETE, CONNECT; Content-Length: 0"

\* do_OPTIONS answering without the Allow header
Options_without_allow(w) ==
    /\ h[w].pc = "options"
    /\ Put(<<"access">>, w)
    /\ LET r == Emit(h[w], 200, "std", "none")
       IN \/ h' = [h EXCEPT ![w] = [r EXCEPT !.pc = "done"]]
          \/ \E e \in WriteErrors : h' = [h EXCEPT ![w] = Raise(r, e)]
    /\ UNCHANGED <<ssvars, cfgvars, srvvars, ghostvars, cache, adm, now,
                   delivered, nreq, nops>>

\* lines 267-270
Options(w) ==
    /\ h[w].pc = "options"
    /\ Put(<<"access">>, w)
    /\ LET r == Emit(h[w], 200, "std", AllowHeaders)
       IN \/ h' = [h EXCEPT ![w] = [r EXCEPT !.pc = "done"]]
          \/ \E e \in WriteErrors : h' = [h EXCEPT ![w] = Raise(r, e)]
    /\ UNCHANGED <<ssvars, cfgvars, srvvars, ghostvars, cache, adm, now,
                   delivered, nreq, nops>>

\* lines 289-290: int(self.headers.get('Content-Length', 0)) and the body
PutRead(w) ==
    /\ h[w].pc = "put_read"
    /\ h' = [h EXCEPT ![w] =
                IF h[w].clen = "bad" THEN Raise(h[w], Exc("ValueError"))
                ELSE [h[w] EXCEPT !.pc = "put_urlopen"]]
    /\ UNCHANGED <<ssvars, cfgvars, srvvars, ghostvars, cache, sse_queue, adm, now,
                   delivered, nreq, nops, nline>>

\* lines 293-294
PutUrlopen(w) == Urlopen(w, "put_urlopen", "PUT", "put_headers")
\* lines 297-300
PutHeaders(w) == SendHeaders(w, "put_headers", "put_resread")
\* line 303
PutResRead(w) == ResRead(w, "put_resread", "put_write")
\* line 304
PutWrite(w) == WriteBody(w, "put_write", "done")

\* line 321: urlopen(self.path), a GET to the origin
HeadUrlopen(w) == Urlopen(w, "head_urlopen", "GET", "head_send")
\* lines 322-325
HeadSend(w) == SendHeaders(w, "head_send", "done")

(***************************************************************************)
(* handle_exception                                                        *)
(***************************************************************************)
Outcome(logs, code, reason) == [logs |-> logs, code |-> code, reason |-> reason]


\* lines 100-118: the log lines put and the error sent (code 0: none) for e
handle_exception(e) ==
    IF IsInstance(e, "ValueError") THEN Outcome(<<>>, 400, "Bad Request")
    ELSE IF IsInstance(e, "HTTPError") THEN Outcome(<<>>, e.code, e.reason)
    ELSE IF IsInstance(e, "ConnectionResetError") THEN Outcome(<<"reset">>, 0, "none")
    ELSE IF IsInstance(e, "TimeoutError") THEN Outcome(<<"timeout">>, 504, "Gateway Timeout")
    ELSE IF IsInstance(e, "URLError") THEN Outcome(<<>>, 502, e.reason)
    ELSE IF IsInstance(e, "BrokenPipeError") THEN Outcome(<<"disconnect">>, 0, "none")
    ELSE IF IsInstance(e, "OSError") THEN Outcome(<<"oserror">>, 500, "Internal Server Error")
    ELSE Outcome(<<"unexpected">>, 500, "Internal Server Error")

\* wrapper, lines 143-144: the except clause runs handle_exception; a failure of
\* its own send_error leaves the wrapper
HandleException(w) ==
    /\ h[w].pc = "handle_exception"
    /\ LET out == handle_exception(h[w].exc)
           r == [h[w] EXCEPT !.hx = out]
       IN IF out.code = 0
          THEN /\ Put(out.logs, w)
               /\ h' = [h EXCEPT ![w] = [r EXCEPT !.pc = "done"]]
          ELSE /\ Put(out.logs \o <<"error", "access">>, w)
               /\ \/ h' = [h EXCEPT ![w] = [Emit(r, out.code, out.reason, "error")
                                              EXCEPT !.pc = "done",
                                                     !.bodies = Append(@, "error")]]
                  \/ \E e \in WriteErrors :
                        h' = [h EXCEPT ![w] = [Emit(r, out.code, out.reason, "error")
                                                 EXCEPT !.pc = "done", !.escaped = e]]
    /\ UNCHANGED <<ssvars, cfgvars, srvvars, ghostvars, cache, adm, now,
                   delivered, nreq, nops>>

\* the handler method has returned (or raised): the handler thread ends
Finish(w) ==
    /\ h[w].pc = "done"
    /\ h' = [h EXCEPT ![w] = IdleH]
    /\ UNCHANGED <<ssvars, cfgvars, srvvars, ghostvars, cache, sse_queue, adm, now,
                   delivered, nreq, nops, nline>>

(***************************************************************************)
(* home_page: clear_cache and send_caching; the clock                      *)
(***************************************************************************)
DefaultCachingTimer == 60
CacheTimes == {1}

Forget(r) == [r EXCEPT !.first0 = NoCache, !.expect = NoEntry, !.expectFirst = NoEntry]

\* main_blueprint.py lines 47-49
ClearCache(a) ==
    /\ nops' = nops + 1
    /\ cache' = CacheClear
    /\ Put(<<"admin">>, a)
    /\ lastStore' = [u \in DOMAIN lastStore |-> NoCache]
    /\ firstStore' = [u \in DOMAIN firstStore |-> NoCache]
    /\ h' = [w \in Workers |-> [h[w] EXCEPT !.first0 = NoCache]]
    /\ UNCHANGED <<ssvars, cfgvars, srvvars, adm, now, delivered, nreq>>

\* main_blueprint.py lines 52-61
SendCaching(a, allow_cache, cache_time) ==
    /\ nops' = nops + 1
    /\ allow_caching' = allow_cache
    /\ caching_timer' = cache_time
    /\ Put(<<"admin", "admin">>, a)
    /\ IF allow_cache
       THEN /\ h' = [w \in Workers |->
                       IF h[w].pc = "idle" THEN h[w] ELSE [h[w] EXCEPT !.cachingOn = TRUE]]
            /\ UNCHANGED ghostvars
       ELSE /\ h' = [w \in Workers |-> Forget(h[w])]
            /\ lastStore' = [u \in DOMAIN lastStore |-> NoCache]
            /\ firstStore' = [u \in DOMAIN firstStore |-> NoCache]
    /\ UNCHANGED <<ssvars, srvvars, faults, cache, adm, now, delivered, nreq>>

\* time passes
Tick ==
    /\ now' = now + 1
    /\ UNCHANGED <<ssvars, cfgvars, srvvars, ghostvars, cache, sse_queue, h, adm,
                   delivered, nreq, nops, nline>>

(***************************************************************************)
(* run_proxy_server and the serve loop of http_server                      *)
(***************************************************************************)
\* shared_settings.py line 42
RunPut(t) ==
    /\ pth[t] = "run"
    /\ pth' = [pth EXCEPT ![t] = "set_flag"]
    /\ Put(<<"running">>, t)
    /\ UNCHANGED <<ssvars, cfgvars, ghostvars, proxy_server_running, shutdown_request,
                   is_shut_down, cache, h, adm, now, delivered, nreq, nops>>

\* shared_settings.py line 43
RunSetFlag(t) ==
    /\ pth[t] = "set_flag"
    /\ pth' = [pth EXCEPT ![t] = "enter"]
    /\ proxy_server_running' = TRUE
    /\ UNCHANGED <<ssvars, cfgvars, ghostvars, shutdown_request, is_shut_down,
                   cache, sse_queue, h, adm, now, delivered, nreq, nops, nline>>

\* shared_settings.py line 44: serve_forever clears is_shut_down and loops
ServeEnter(t) ==
    /\ pth[t] = "enter"
    /\ pth' = [pth EXCEPT ![t] = "serving"]
    /\ is_shut_down' = FALSE
    /\ UNCHANGED <<ssvars, cfgvars, ghostvars, proxy_server_running, shutdown_request,
                   cache, sse_queue, h, adm, now, delivered, nreq, nops, nline>>

\* a serve loop that on a shutdown request also ends the handler threads
ServeExit_aborting(t) ==
    /\ pth[t] = "serving"
    /\ shutdown_request
    /\ pth' = [pth EXCEPT ![t] = "clear_flag"]
    /\ shutdown_request' = FALSE
    /\ is_shut_down' = TRUE
    /\ h' = [w \in Workers |-> IdleH]
    /\ UNCHANGED <<ssvars, cfgvars, ghostvars, proxy_server_running,
                   cache, sse_queue, adm, now, delivered, nreq, nops, nline>>

\* serve_forever leaves its loop on a shutdown request, resets it and sets
\* is_shut_down
ServeExit(t) ==
    /\ pth[t] = "serving"
    /\ shutdown_request
    /\ pth' = [pth EXCEPT ![t] = "clear_flag"]
    /\ shutdown_request' = FALSE
    /\ is_shut_down' = TRUE
    /\ UNCHANGED <<ssvars, cfgvars, ghostvars, proxy_server_running,
                   cache, sse_queue, h, adm, now, delivered, nreq, nops, nline>>

\* shared_settings.py line 45
RunClearFlag(t) ==
    /\ pth[t] = "clear_flag"
    /\ pth' = [pth EXCEPT ![t] = "stop_put"]
    /\ proxy_server_running' = FALSE
    /\ UNCHANGED <<ssvars, cfgvars, ghostvars, shutdown_request, is_shut_down,
                   cache, sse_queue, h, adm, now, delivered, nreq, nops, nline>>

\* shared_settings.py line 46
RunStopPut(t) ==
    /\ pth[t] = "stop_put"
    /\ pth' = [pth EXCEPT ![t] = "exited"]
    /\ Put(<<"stopped">>, t)
    /\ UNCHANGED <<ssvars, cfgvars, ghostvars, proxy_server_running, shutdown_request,
                   is_shut_down, cache, h, adm, now, delivered, nreq, nops>>

(***************************************************************************)
(* Initial states.                                                         *)
(***************************************************************************)
IdleA == [pc |-> "idle", send_data |-> <<>>, form |-> <<>>, pre |-> <<>>]

\* the state once app.py has started the proxy thread (shared_settings.py
\* lines 19-32, app.py lines 40-41)
InitBase ==
    /\ url_whitelist = <<>> /\ url_blacklist = <<>>
    /\ ip_whitelist = <<>> /\ ip_blacklist = <<>>
    /\ proxy_server_running = FALSE
    /\ allow_caching = TRUE
    /\ caching_timer = DefaultCachingTimer
    /\ cache = [u \in URLs |-> NoCache]
    /\ sse_queue = <<>>
    /\ shutdown_request = FALSE
    /\ is_shut_down = FALSE
    /\ h = [w \in Workers |-> IdleH]
    /\ adm = [a \in Admins |-> IdleA]
    /\ pth = [t \in ProxyThreads |-> IF t = "t0" THEN "run" ELSE "new"]
    /\ now = 0
    /\ faults = "all"
    /\ lastStore = [u \in URLs |-> NoCache]
    /\ firstStore = [u \in URLs |-> NoCache]
    /\ delivered = <<>>
    /\ nreq = 0 /\ nops = 0 /\ nline = 0

\* filter lists an earlier update of the admin page has left
FilterConfigs ==
    {[uw |-> <<>>, ub |-> <<>>, iw |-> <<>>, ib |-> <<>>],
     [uw |-> <<<<"a">>>>, ub |-> <<>>, iw |-> <<>>, ib |-> <<<<"b">>>>]}

\* the proxy thread is in its serve loop
Running ==
    /\ proxy_server_running = TRUE
    /\ pth = [t \in ProxyThreads |-> IF t = "t0" THEN "serving" ELSE "new"]
    /\ sse_queue = <<[kind |-> "running", by |-> "t0", id |-> 1]>>
    /\ nline = 1

InitServing(configs, f) ==
    /\ faults = f
    /\ \E c \in configs :
          /\ url_whitelist = c.uw /\ url_blacklist = c.ub
          /\ ip_whitelist = c.iw /\ ip_blacklist = c.ib
    /\ Running
    /\ allow_caching = TRUE
    /\ caching_timer = DefaultCachingTimer
    /\ cache = [u \in URLs |-> NoCache]
    /\ shutdown_request = FALSE
    /\ is_shut_down = FALSE
    /\ h = [w \in Workers |-> IdleH]
    /\ adm = [a \in Admins |-> IdleA]
    /\ now = 0
    /\ lastStore = [u \in URLs |-> NoCache]
    /\ firstStore = [u \in URLs |-> NoCache]
    /\ delivered = <<>>
    /\ nreq = 0 /\ nops = 0

CLens(m) == IF m \in {"POST", "PUT"} THEN {"ok", "bad", "missing"} ELSE {"none"}

\* the steps of one handler thread
Handler(w) ==
    \/ WrapperFilter(w) \/ Send403(w) \/ NotAllowed(w)
    \/ GetCache(w) \/ GetBranch(w) \/ GetUrlopen(w) \/ GetRead(w) \/ GetStore(w)
    \/ GetSend(w) \/ GetCached(w)
    \/ PostRead(w) \/ PostUrlopen(w) \/ PostResRead(w) \/ PostSend(w)
    \/ DeleteUrlopen(w) \/ DeleteHeaders(w) \/ DeleteResRead(w) \/ DeleteWrite(w)
    \/ Options(w)
    \/ PutRead(w) \/ PutUrlopen(w) \/ PutHeaders(w) \/ PutResRead(w) \/ PutWrite(w)
    \/ HeadUrlopen(w) \/ HeadSend(w)
    \/ HandleException(w) \/ Finish(w)

(***************************************************************************)
(* Spec: a handler thread takes requests of every method, under every      *)
(* failure of the origin and of the client connection.                     *)
(***************************************************************************)
Init == InitServing(FilterConfigs, "all")

Next ==
    \/ /\ nreq < MaxRequests
       /\ \E m \in METHODS, u \in {URLa, URLrel}, ip \in IPs :
             \E cl \in CLens(m) : Accept("w1", m, u, ip, cl)
    \/ Handler("w1")

Spec == Init /\ [][Next]_vars

(***************************************************************************)
(* What a request left behind.                                             *)
(***************************************************************************)
\* the log lines of kind k the handler w has put for its current request
LinesOf(w, k) ==
    {i \in DOMAIN sse_queue :
        sse_queue[i].by = w /\ sse_queue[i].id > h[w].line0 /\ sse_queue[i].kind = k}

Statuses(w) == [i \in DOMAIN h[w].responses |-> h[w].responses[i].status]

\* C2: a request the filter rejects, of whatever method, is answered 403 and
\* nothing else; while it is handled the origin is never contacted and the cache
\* is neither read nor written.
C2_RejectedIs403 ==
    \A w \in Workers :
        h[w].rejected =>
            /\ h[w].origin = <<>>
            /\ h[w].gets = 0 /\ h[w].sets = 0
            /\ h[w].pc = "done" =>
                  /\ Statuses(w) = <<403>>
                  /\ h[w].responses[1].reason = "Access Denied"

C2_Witness ==
    \E w \in Workers :
        /\ h[w].rejected /\ h[w].pc = "done" /\ h[w].method = "GET"
        /\ Statuses(w) = <<403>>

\* the kind of a failure, by its most specific class
Kind(e) ==
    CASE e.cls \in {"ValueError"} -> "invalid-request"
      [] e.cls = "HTTPError" -> "origin-http-error"
      [] e.cls = "TimeoutError" \/ e = ConnectTimeout -> "timeout"
      [] e.cls = "URLError" /\ e # ConnectTimeout -> "unreachable"
      [] e.cls \in {"ConnectionResetError", "BrokenPipeError"} -> "peer-disconnect"
      [] e.cls = "OSError" -> "local-io-error"
      [] OTHER -> "other"

\* the outcome handle_exception gave the failure e that the wrapper of w caught
\* is the outcome of e's kind
Mapped(w, e) ==
    LET k == Kind(e)
        out == h[w].hx
        last == h[w].responses[Len(h[w].responses)]
        answered(code) ==
            /\ out.code = code
            /\ Len(h[w].responses) = h[w].nresp0 + 1
            /\ last.status = code
        logged(kind) ==
            /\ out.logs = <<kind>>
            /\ Cardinality(LinesOf(w, kind)) = 1
    IN CASE k = "invalid-request" -> answered(400) /\ out.logs = <<>>
         [] k = "origin-http-error" ->
                answered(e.code) /\ last.reason = e.reason /\ out.logs = <<>>
         [] k = "timeout" -> answered(504) /\ logged("timeout")
         [] k = "unreachable" -> answered(502) /\ out.logs = <<>>
         [] k = "peer-disconnect" ->
                /\ out.code = 0
                /\ Len(out.logs) = 1
                /\ Len(h[w].responses) = h[w].nresp0
         [] k = "local-io-error" -> answered(500) /\ logged("oserror")
         [] OTHER -> answered(500) /\ logged("unexpected")

\* C5: every failure raised while a request is handled is mapped to the outcome
\* of its kind: invalid-request 400; origin-http-error the origin's status and
\* reason; timeout 504 and exactly one timeout log line; unreachable 502;
\* peer-disconnect no response and one log line; local-io-error and any other
\* failure 500 and one log line.  A failure that leaves the handler is mapped to
\* no outcome.
C5_EveryFailureMapped ==
    \A w \in Workers :
        h[w].pc = "done" =>
            /\ h[w].caught # <<>> => Mapped(w, h[w].caught[1])
            /\ h[w].escaped = NoExc

\* C6: no failure leaves the per-method handler: every do_<METHOD> call returns
\* normally.
C6_NoPropagation == \A w \in Workers : h[w].escaped = NoExc

\* C7: every handled request has put exactly one access-log line.
C7_OneAccessLine ==
    \A w \in Workers : h[w].pc = "done" => Cardinality(LinesOf(w, "access")) = 1

(***************************************************************************)
(* SpecFilter: the filter of the wrapper applied to every client address   *)
(* and target under every combination of the four lists.                   *)
(***************************************************************************)
InitFilter ==
    InitServing([uw : ListValues, ub : ListValues, iw : ListValues, ib : ListValues],
                "all")

NextFilter ==
    \/ /\ nreq < MaxRequests
       /\ \E u \in URLs, ip \in IPs : Accept("w1", "GET", u, ip, "none")
    \/ WrapperFilter("w1")

SpecFilter == InitFilter /\ [][NextFilter]_vars

\* a dimension passes: the whitelist is empty or holds v, and v is not in the
\* blacklist without being in the whitelist
DimPass(v, W, B) == (W = <<>> \/ In(v, W)) /\ ~(In(v, B) /\ ~In(v, W))

Decided(w) == h[w].pc \notin {"idle", "filter"}

\* C1: a request is allowed exactly when the client address and the target host
\* both pass, each against its own whitelist and blacklist.
C1_FilterDecision ==
    \A w \in Workers :
        Decided(w) =>
            (~h[w].rejected <=>
                /\ DimPass(h[w].client_ip, ip_whitelist, ip_blacklist)
                /\ DimPass(Hostname(h[w].path), url_whitelist, url_blacklist))

\* a client address in both of its lists is allowed (the whitelist wins)
C1_Witness ==
    \E w \in Workers :
        /\ Decided(w) /\ ~h[w].rejected
        /\ In(h[w].client_ip, ip_whitelist) /\ In(h[w].client_ip, ip_blacklist)

(***************************************************************************)
(* SpecCache: two handler threads take GET requests for one URL while the  *)
(* admin page clears the cache and changes the caching settings and time   *)
(* passes.                                                                 *)
(***************************************************************************)
OpenConfig == {[uw |-> <<>>, ub |-> <<>>, iw |-> <<>>, ib |-> <<>>]}

InitCache == InitServing(OpenConfig, "few")

GetHandler(w) ==
    \/ WrapperFilter(w)
    \/ GetCache(w) \/ GetBranch(w) \/ GetUrlopen(w) \/ GetRead(w) \/ GetStore(w)
    \/ GetSend(w) \/ GetCached(w)
    \/ HandleException(w) \/ Finish(w)

\* requests taken, admin operations done and clock ticks so far
Events == nreq + nops + now

NextCache ==
    \/ /\ Events < MaxEvents
       /\ \E w \in Workers : Accept(w, "GET", URLa, <<"a">>, "none")
    \/ \E w \in Workers : GetHandler(w)
    \/ Events < MaxEvents /\ ClearCache("a1")
    \/ /\ Events < MaxEvents
       /\ \E b \in BOOLEAN, t \in CacheTimes : SendCaching("a1", b, t)
    \/ Events < MaxEvents /\ Tick

SpecCache == InitCache /\ [][NextCache]_vars

\* the request of w was answered from the cache with the entry e, and the origin
\* was not contacted
ServedFromCache(w, e) ==
    /\ Statuses(w) = <<200>>
    /\ h[w].responses[1].reason = "OK (from cache)"
    /\ h[w].responses[1].headers = e.headers
    /\ h[w].bodies = <<e.content>>
    /\ h[w].origin = <<>>

\* C3 as stated: a GET issued after a successful forward of the same URL has
\* stored its response, before that response's TTL elapses and with no clear and
\* no disabling of caching in between, is answered from the cache with the
\* headers and body of that first response.
C3_ServesFirstResponse ==
    \A w \in Workers :
        (h[w].pc = "done" /\ h[w].expectFirst # NoEntry) =>
            ServedFromCache(w, h[w].expectFirst)

\* C3, amended: a GET that reads the cache while the response stored last for
\* its URL is unexpired, with no clear since that store and no disabling of
\* caching since, is answered 200 as cache-served with the headers and body of
\* that last stored response, and the origin is not contacted.
C3_ServesLastStored ==
    \A w \in Workers :
        (h[w].pc = "done" /\ h[w].expect # NoEntry) =>
            ServedFromCache(w, h[w].expect)

C3_Witness ==
    \E w \in Workers :
        /\ h[w].pc = "done" /\ h[w].expect # NoEntry /\ h[w].first0 # NoCache
        /\ ServedFromCache(w, h[w].expect)

\* C4: a GET handled while caching is disabled never reads and never writes the
\* cache, and is forwarded exactly once.
C4_DisabledBypass ==
    \A w \in Workers :
        (h[w].method = "GET" /\ ~h[w].cachingOn) =>
            /\ h[w].gets = 0 /\ h[w].sets = 0
            /\ h[w].pc = "done" => Len(h[w].origin) = 1

(***************************************************************************)
(* The log queue: log_message and the /data route.                         *)
(***************************************************************************)
\* httpserver.py lines 38-39: a handler logs a line
LogMessage(w) ==
    /\ Put(<<"access">>, w)
    /\ UNCHANGED <<ssvars, cfgvars, srvvars, ghostvars, cache, h, adm, now,
                   delivered, nreq, nops>>

\* main_blueprint.py line 86: send_data = list(ss.sse_queue.queue)
DataCopy(a) ==
    /\ adm[a].pc = "idle"
    /\ adm' = [adm EXCEPT ![a].pc = "data_clear", ![a].send_data = sse_queue]
    /\ nops' = nops + 1
    /\ UNCHANGED <<ssvars, cfgvars, srvvars, ghostvars, cache, sse_queue, h, now,
                   delivered, nreq, nline>>

\* main_blueprint.py lines 87-93: ss.sse_queue.queue.clear(); return send_data
DataClear(a) ==
    /\ adm[a].pc = "data_clear"
    /\ sse_queue' = <<>>
    /\ delivered' = Append(delivered, adm[a].send_data)
    /\ adm' = [adm EXCEPT ![a].pc = "idle", ![a].send_data = <<>>]
    /\ UNCHANGED <<ssvars, cfgvars, srvvars, ghostvars, cache, h, now,
                   nreq, nops, nline>>

InitDrain == InitServing(OpenConfig, "all")

NextDrain ==
    \/ nline < MaxLines /\ \E w \in Workers : LogMessage(w)
    \/ nops < MaxDrains /\ \E a \in Admins : DataCopy(a)
    \/ \E a \in Admins : DataClear(a)

SpecDrain == InitDrain /\ [][NextDrain]_vars

RECURSIVE Flatten(_)
Flatten(ss) == IF ss = <<>> THEN <<>> ELSE Head(ss) \o Flatten(Tail(ss))

\* C8: the lines the drains have returned, in the order returned, followed by the
\* lines still queued, are exactly the lines pushed, each once and in push order.
C8_DrainExactlyOnce ==
    (\A a \in Admins : adm[a].pc = "idle") =>
        LET all == Flatten(delivered) \o sse_queue
        IN /\ Len(all) = nline
           /\ \A i \in DOMAIN all : all[i].id = i

(***************************************************************************)
(* The filter read list by list, and home_page's send_filters.             *)
(***************************************************************************)
Reject(w) == [h EXCEPT ![w].pc = "send403", ![w].rejected = TRUE]

Goto(w, pc) == [h EXCEPT ![w].pc = pc]

\* httpserver.py line 74, first operand: ss.ip_whitelist
FilterIp1(w) ==
    /\ h[w].pc = "filter"
    /\ h' = IF Truthy(ip_whitelist) THEN Goto(w, "fip2") ELSE Goto(w, "fip3")
    /\ UNCHANGED <<ssvars, cfgvars, srvvars, ghostvars, cache, sse_queue, adm, now,
                   delivered, nreq, nops, nline>>

\* line 74, second operand: client_ip not in ss.ip_whitelist
FilterIp2(w) ==
    /\ h[w].pc = "fip2"
    /\ h' = IF ~In(h[w].client_ip, ip_whitelist) THEN Reject(w) ELSE Goto(w, "fip3")
    /\ UNCHANGED <<ssvars, cfgvars, srvvars, ghostvars, cache, sse_queue, adm, now,
                   delivered, nreq, nops, nline>>

\* line 76, first operand: client_ip in ss.ip_blacklist
FilterIp3(w) ==
    /\ h[w].pc = "fip3"
    /\ h' = IF In(h[w].client_ip, ip_blacklist) THEN Goto(w, "fip4") ELSE Goto(w, "furl1")
    /\ UNCHANGED <<ssvars, cfgvars, srvvars, ghostvars, cache, sse_queue, adm, now,
                   delivered, nreq, nops, nline>>

\* line 76, second operand: client_ip not in ss.ip_whitelist
FilterIp4(w) ==
    /\ h[w].pc = "fip4"
    /\ h' = IF ~In(h[w].client_ip, ip_whitelist) THEN Reject(w) ELSE Goto(w, "furl1")
    /\ UNCHANGED <<ssvars, cfgvars, srvvars, ghostvars, cache, sse_queue, adm, now,
                   delivered, nreq, nops, nline>>

\* line 54, first operand: ss.url_whitelist
FilterUrl1(w) ==
    /\ h[w].pc = "furl1"
    /\ h' = IF Truthy(url_whitelist) THEN Goto(w, "furl2") ELSE Goto(w, "furl3")
    /\ UNCHANGED <<ssvars, cfgvars, srvvars, ghostvars, cache, sse_queue, adm, now,
                   delivered, nreq, nops, nline>>

\* line 54, second operand: url_hostname not in ss.url_whitelist
FilterUrl2(w) ==
    /\ h[w].pc = "furl2"
    /\ h' = IF ~In(Hostname(h[w].path), url_whitelist) THEN Reject(w)
            ELSE Goto(w, "furl3")
    /\ UNCHANGED <<ssvars, cfgvars, srvvars, ghostvars, cache, sse_queue, adm, now,
                   delivered, nreq, nops, nline>>

\* line 56, first operand: url_hostname in ss.url_blacklist
FilterUrl3(w) ==
    /\ h[w].pc = "furl3"
    /\ h' = IF In(Hostname(h[w].path), url_blacklist) THEN Goto(w, "furl4")
            ELSE Goto(w, Entry(h[w].method))
    /\ UNCHANGED <<ssvars, cfgvars, srvvars, ghostvars, cache, sse_queue, adm, now,
                   delivered, nreq, nops, nline>>

\* line 56, second operand: url_hostname not in ss.url_whitelist
FilterUrl4(w) ==
    /\ h[w].pc = "furl4"
    /\ h' = IF ~In(Hostname(h[w].path), url_whitelist) THEN Reject(w)
            ELSE Goto(w, Entry(h[w].method))
    /\ UNCHANGED <<ssvars, cfgvars, srvvars, ghostvars, cache, sse_queue, adm, now,
                   delivered, nreq, nops, nline>>

FilterReads(w) ==
    \/ FilterIp1(w) \/ FilterIp2(w) \/ FilterIp3(w) \/ FilterIp4(w)
    \/ FilterUrl1(w) \/ FilterUrl2(w) \/ FilterUrl3(w) \/ FilterUrl4(w)

Lists == [uw |-> url_whitelist, ub |-> url_blacklist,
          iw |-> ip_whitelist, ib |-> ip_blacklist]

\* main_blueprint.py line 34, with the form of the request
SendFilters34(a, form) ==
    /\ adm[a].pc = "idle"
    /\ adm' = [adm EXCEPT ![a].pc = "sf35", ![a].form = form, ![a].pre = Lists]
    /\ nops' = nops + 1
    /\ url_blacklist' = ParseList(form.ub)
    /\ UNCHANGED <<url_whitelist, ip_whitelist, ip_blacklist, cfgvars, srvvars,
                   ghostvars, cache, sse_queue, h, now, delivered, nreq, nline>>

\* line 35
SendFilters35(a) ==
    /\ adm[a].pc = "sf35"
    /\ adm' = [adm EXCEPT ![a].pc = "sf36"]
    /\ url_whitelist' = ParseList(adm[a].form.uw)
    /\ UNCHANGED <<url_blacklist, ip_whitelist, ip_blacklist, cfgvars, srvvars,
                   ghostvars, cache, sse_queue, h, now, delivered, nreq, nops, nline>>

\* line 36
SendFilters36(a) ==
    /\ adm[a].pc = "sf36"
    /\ adm' = [adm EXCEPT ![a].pc = "sf37"]
    /\ ip_blacklist' = ParseList(adm[a].form.ib)
    /\ UNCHANGED <<url_whitelist, url_blacklist, ip_whitelist, cfgvars, srvvars,
                   ghostvars, cache, sse_queue, h, now, delivered, nreq, nops, nline>>

\* line 37
SendFilters37(a) ==
    /\ adm[a].pc = "sf37"
    /\ adm' = [adm EXCEPT ![a].pc = "sf39"]
    /\ ip_whitelist' = ParseList(adm[a].form.iw)
    /\ UNCHANGED <<url_whitelist, url_blacklist, ip_blacklist, cfgvars, srvvars,
                   ghostvars, cache, sse_queue, h, now, delivered, nreq, nops, nline>>

\* line 39
SendFilters39(a) ==
    /\ adm[a].pc = "sf39"
    /\ adm' = [adm EXCEPT ![a].pc = "sf40"]
    /\ url_blacklist' = NonEmpty(url_blacklist)
    /\ UNCHANGED <<url_whitelist, ip_whitelist, ip_blacklist, cfgvars, srvvars,
                   ghostvars, cache, sse_queue, h, now, delivered, nreq, nops, nline>>

\* line 40
SendFilters40(a) ==
    /\ adm[a].pc = "sf40"
    /\ adm' = [adm EXCEPT ![a].pc = "sf41"]
    /\ url_whitelist' = NonEmpty(url_whitelist)
    /\ UNCHANGED <<url_blacklist, ip_whitelist, ip_blacklist, cfgvars, srvvars,
                   ghostvars, cache, sse_queue, h, now, delivered, nreq, nops, nline>>

\* line 41
SendFilters41(a) ==
    /\ adm[a].pc = "sf41"
    /\ adm' = [adm EXCEPT ![a].pc = "sf42"]
    /\ ip_blacklist' = NonEmpty(ip_blacklist)
    /\ UNCHANGED <<url_whitelist, url_blacklist, ip_whitelist, cfgvars, srvvars,
                   ghostvars, cache, sse_queue, h, now, delivered, nreq, nops, nline>>

\* line 42
SendFilters42(a) ==
    /\ adm[a].pc = "sf42"
    /\ adm' = [adm EXCEPT ![a].pc = "sf44"]
    /\ ip_whitelist' = NonEmpty(ip_whitelist)
    /\ UNCHANGED <<url_whitelist, url_blacklist, ip_blacklist, cfgvars, srvvars,
                   ghostvars, cache, sse_queue, h, now, delivered, nreq, nops, nline>>

\* line 44
SendFilters44(a) ==
    /\ adm[a].pc = "sf44"
    /\ adm' = [adm EXCEPT ![a].pc = "idle"]
    /\ Put(<<"admin">>, a)
    /\ UNCHANGED <<ssvars, cfgvars, srvvars, ghostvars, cache, h, now,
                   delivered, nreq, nops>>

SendFilters(a) ==
    \/ SendFilters35(a) \/ SendFilters36(a) \/ SendFilters37(a) \/ SendFilters39(a)
    \/ SendFilters40(a) \/ SendFilters41(a) \/ SendFilters42(a) \/ SendFilters44(a)

(***************************************************************************)
(* SpecRace: a handler thread filters a request while the admin page       *)
(* updates the filter lists.                                               *)
(***************************************************************************)
Forms == [uw : FormTexts, ub : FormTexts, iw : FormTexts, ib : FormTexts]

InitRace == InitServing(OpenConfig, "all")

NextRace ==
    \/ /\ nreq < MaxRequests
       /\ \E u \in {URLa, URLb}, ip \in IPs : Accept("w1", "GET", u, ip, "none")
    \/ FilterReads("w1")
    \/ nops < MaxUpdates /\ \E form \in Forms : SendFilters34("a1", form)
    \/ SendFilters("a1")

SpecRace == InitRace /\ [][NextRace]_vars

\* the decision of the filter for the request of w under the lists L
Decision(w, L) ==
    /\ DimPass(h[w].client_ip, L.iw, L.ib)
    /\ DimPass(Hostname(h[w].path), L.uw, L.ub)

Updating(a) == adm[a].form # <<>>
\* the lists before the update of a, and those it leaves
PreLists(a) == IF Updating(a) THEN adm[a].pre ELSE Lists
PostLists(a) ==
    IF Updating(a)
    THEN [uw |-> NonEmpty(ParseList(adm[a].form.uw)),
          ub |-> NonEmpty(ParseList(adm[a].form.ub)),
          iw |-> NonEmpty(ParseList(adm[a].form.iw)),
          ib |-> NonEmpty(ParseList(adm[a].form.ib))]
    ELSE Lists

\* C9: a filter decision taken while the admin page performs one update of the
\* lists is the decision under the lists before the update or under the lists
\* after it.
C9_NoTornDecision ==
    \A w \in Workers :
        Decided(w) =>
            \/ ~h[w].rejected <=> Decision(w, PreLists("a1"))
            \/ ~h[w].rejected <=> Decision(w, PostLists("a1"))

(***************************************************************************)
(* home_page's toggle_server.                                              *)
(***************************************************************************)
\* main_blueprint.py line 27: if not ss.proxy_server_running
ToggleRead(a) ==
    /\ adm[a].pc = "idle"
    /\ adm' = [adm EXCEPT ![a].pc = IF ~proxy_server_running THEN "toggle_start"
                                    ELSE "toggle_shutdown"]
    /\ nops' = nops + 1
    /\ UNCHANGED <<ssvars, cfgvars, srvvars, ghostvars, cache, sse_queue, h, now,
                   delivered, nreq, nline>>

\* lines 28-29: a new thread runs run_proxy_server
ToggleStart(a) ==
    /\ adm[a].pc = "toggle_start"
    /\ \E t \in ProxyThreads :
          /\ pth[t] = "new"
          /\ pth' = [pth EXCEPT ![t] = "run"]
    /\ adm' = [adm EXCEPT ![a].pc = "idle"]
    /\ UNCHANGED <<ssvars, cfgvars, ghostvars, proxy_server_running, shutdown_request,
                   is_shut_down, cache, sse_queue, h, now, delivered, nreq, nops, nline>>

\* line 31: shutdown() asks the serve loop to stop ...
ToggleShutdown(a) ==
    /\ adm[a].pc = "toggle_shutdown"
    /\ shutdown_request' = TRUE
    /\ adm' = [adm EXCEPT ![a].pc = "toggle_wait"]
    /\ UNCHANGED <<ssvars, cfgvars, ghostvars, proxy_server_running, is_shut_down, pth,
                   cache, sse_queue, h, now, delivered, nreq, nops, nline>>

\* ... and waits for is_shut_down
ToggleWait(a) ==
    /\ adm[a].pc = "toggle_wait"
    /\ is_shut_down
    /\ adm' = [adm EXCEPT ![a].pc = "idle"]
    /\ UNCHANGED <<ssvars, cfgvars, srvvars, ghostvars, cache, sse_queue, h, now,
                   delivered, nreq, nops, nline>>

ProxyThread(t) ==
    \/ RunPut(t) \/ RunSetFlag(t) \/ ServeEnter(t) \/ ServeExit(t)
    \/ RunClearFlag(t) \/ RunStopPut(t)

(***************************************************************************)
(* SpecLife: the proxy thread started at boot and the toggle requests of   *)
(* the admin page.                                                         *)
(***************************************************************************)
NextLife ==
    \/ \E t \in ProxyThreads : ProxyThread(t)
    \/ nops < MaxToggles /\ \E a \in Admins : ToggleRead(a)
    \/ \E a \in Admins : ToggleStart(a) \/ ToggleShutdown(a) \/ ToggleWait(a)

SpecLife == InitBase /\ [][NextLife]_vars

\* C10: at most one thread is in the serve loop of the proxy at any time.
C10_OneServeLoop ==
    Cardinality({t \in ProxyThreads : pth[t] = "serving"}) <= 1

\* C11: whenever the run flag is false no thread is in the serve loop (so the
\* flag becomes false on a stop only once the serve loop has been left).
C11_FlagAgreesWithListener ==
    ~proxy_server_running => ~Serving

\* the proxy is stopped: the flag is false and no thread runs run_proxy_server
Stopped ==
    /\ ~proxy_server_running
    /\ \A t \in ProxyThreads : pth[t] \in {"new", "exited"}

\* C20: when the proxy is stopped no stop request is pending, so that the serve
\* loop the next toggle starts runs until a stop request issued after it.
C20_NoPendingStop ==
    Stopped => ~shutdown_request

\* C14: every request sent to the origin for a GET, HEAD, POST, PUT or DELETE
\* carries the method and the URL of the inbound request.
C14_SameMethodAndUrl ==
    \A w \in Workers :
        \A i \in DOMAIN h[w].origin :
            /\ h[w].origin[i].method = h[w].method
            /\ h[w].origin[i].url = h[w].path

\* C15: a request whose URL has no hostname is answered 400 and nothing else,
\* whatever the filter lists hold.
C15_NoHostnameIs400 ==
    \A w \in Workers :
        (h[w].pc = "done" /\ Hostname(h[w].path) = None) => Statuses(w) = <<400>>

\* C19: at most one response (status line and headers) is written for a request.
C19_AtMostOneResponse ==
    \A w \in Workers : Len(h[w].responses) <= 1

\* the handling of an OPTIONS request by w has ended
OptionsDone(w) == h[w].pc = "done" /\ h[w].method = "OPTIONS"

InitHang == InitServing(FilterConfigs, "hang")

NextHang ==
    \/ /\ nreq < MaxRequests
       /\ \E m \in {"GET", "POST"} : Accept("w1", m, URLb, <<"a">>, "none")
    \/ /\ nreq < MaxRequests
       /\ \E m \in METHODS, u \in {URLa, URLb} :
             \E cl \in CLens(m) : Accept("w2", m, u, <<"a">>, cl)
    \/ \E w \in Workers : Handler(w)

SpecHang == InitHang /\ [][NextHang]_vars /\ \A w \in Workers : WF_vars(Handler(w))

\* the handler w waits in urlopen for an origin that never answers
Blocked(w) == h[w].pc \in UrlopenPcs /\ ~Answers(h[w].path)

\* C13: a request for an origin that answers gets its response, whatever the
\* other handler thread does, also when that one waits forever for its origin.
C13_OthersNotDelayed ==
    \A w \in Workers :
        (h[w].pc = "filter" /\ Answers(h[w].path))
            ~> (h[w].pc = "done" /\ Len(h[w].responses) = 1)

C13_Witness ==
    \E w, v \in Workers :
        /\ Blocked(v)
        /\ h[w].pc = "done" /\ Len(h[w].responses) = 1 /\ Answers(h[w].path)
        /\ h[w].line0 >= h[v].line0

\* C16: every request gets a response in the end (a fetch that the origin never
\* answers ends with a timeout and the client receives 504).
C16_EveryRequestAnswered ==
    \A w \in Workers :
        h[w].pc = "filter" ~> (h[w].pc = "done" /\ Len(h[w].responses) >= 1)

(***************************************************************************)
(* SpecStop: a handler thread takes requests while the admin page toggles  *)
(* the proxy.  The handler thread runs when it can.                        *)
(***************************************************************************)
InitStop == InitServing(OpenConfig, "none")

Toggle(a) == ToggleStart(a) \/ ToggleShutdown(a) \/ ToggleWait(a)

\* the steps of a handler thread for the GET and DELETE requests it is given
ForwardHandler(w) ==
    \/ WrapperFilter(w)
    \/ GetCache(w) \/ GetBranch(w) \/ GetUrlopen(w) \/ GetRead(w) \/ GetStore(w)
    \/ GetSend(w) \/ GetCached(w)
    \/ DeleteUrlopen(w) \/ DeleteHeaders(w) \/ DeleteResRead(w) \/ DeleteWrite(w)
    \/ Finish(w)

NextStop ==
    \/ /\ nreq < MaxRequests
       /\ \E m \in {"GET", "DELETE"} : Accept("w1", m, URLa, <<"a">>, "none")
    \/ ForwardHandler("w1")
    \/ \E t \in ProxyThreads : ProxyThread(t)
    \/ nops < MaxToggles /\ ToggleRead("a1")
    \/ Toggle("a1")

SpecStop == InitStop /\ [][NextStop]_vars /\ WF_vars(ForwardHandler("w1"))

\* the handler w is handling a request
InFlight(w) == h[w].pc \notin {"idle", "done"}

\* a stop has been asked for, or the serve loop has been left
Stopping == shutdown_request \/ ~Serving

\* C12: a request that is being handled when the proxy is stopped is handled to
\* its end and its response is written.
C12_InFlightCompletes ==
    \A k \in 1..MaxRequests :
        (InFlight("w1") /\ nreq = k /\ Stopping)
            ~> (h["w1"].pc = "done" /\ nreq = k /\ Len(h["w1"].responses) = 1)

C12_Witness ==
    /\ h["w1"].pc = "done" /\ Len(h["w1"].responses) = 1
    /\ h["w1"].origin # <<>>
    /\ ~Serving /\ ~proxy_server_running

(***************************************************************************)
(* SpecStore: two handler threads take requests of every method while the  *)
(* admin page clears the cache and switches caching.                       *)
(***************************************************************************)
InitStore == InitServing(FilterConfigs, "read")

NextStore ==
    \/ /\ Events < MaxRequests
       /\ \E m \in METHODS, ip \in IPs : Accept("w1", m, URLa, ip, "ok")
    \/ Events < MaxRequests /\ Accept("w2", "GET", URLa, <<"a">>, "none")
    \/ \E w \in Workers : Handler(w)
    \/ Events < MaxRequests /\ ClearCache("a1")
    \/ /\ Events < MaxRequests
       /\ \E b \in BOOLEAN, t \in CacheTimes : SendCaching("a1", b, t)

SpecStore == InitStore /\ [][NextStore]_vars

\* the (headers, body) pairs that are one whole response of the origin
CompletePairs ==
    {[headers |-> r.headers, content |-> r.content] : r \in OriginResponses}

\* the entry under u is written by a handler of a GET for u that the filter
\* allowed and whose fetch succeeded, with the response of that fetch
StoredByGet(u) ==
    \E w \in Workers :
        /\ h[w].pc = "get_store" /\ h[w].method = "GET" /\ h[w].path = u
        /\ ~h[w].rejected /\ h[w].caught = <<>>
        /\ h[w].origin = <<[method |-> "GET", url |-> u]>>
        /\ h[w].res \in OriginResponses
        /\ cache'[u].value = [headers |-> h[w].res.headers, content |-> h[w].res.content]

\* C18: every cache entry is one whole (headers, body) pair of an origin response,
\* and an entry under u is only ever written by a GET for u whose filter passed
\* and whose fetch succeeded; any other change of an entry removes it.
C18_OnlyGetStores ==
    /\ [](\A u \in URLs : cache[u] # NoCache => cache[u].value \in CompletePairs)
    /\ [][\A u \in URLs :
            cache'[u] # cache[u] => (cache'[u] = NoCache \/ StoredByGet(u))]_vars

C18_Witness ==
    /\ cache[URLa] # NoCache
    /\ \E w \in Workers : h[w].pc = "post_send"

====
